---- MODULE Spec2Model ----
(***************************************************************************)
(* PartyScreen (src/screens/PartyScreen.tsx): the party screen of a        *)
(* group-swiping client.  The component holds three pieces of React state  *)
(* (finished, restaurants, details), receives the server's Party value as  *)
(* a prop, and talks to the server through ws.send.                        *)
(*                                                                         *)
(* One action of this model is one task of the JavaScript event loop.  A   *)
(* handler task (a pushed Party value, a swipe, a button press, a dialog   *)
(* button) runs the handler, then the passive effects that the render on   *)
(* display still owes (React flushes them before it renders again), then   *)
(* the render with the new state and its commit; the effects of that       *)
(* render (lines 79-95) are left pending.  React runs pending effects in a *)
(* task of their own (Flush), with the re-render a setState inside an      *)
(* effect asks for, unless a handler task comes first.  The handler of an  *)
(* Alert button is called from the native side, outside React's batching:  *)
(* each of its two updates (navigate, setParty) is rendered at once, and   *)
(* each of these render passes starts by running the effects owed.  A      *)
(* setter that is given the value the state holds is dropped by React,     *)
(* except right after a render that took in a state update of the          *)
(* component: then a render pass starts, runs the effects owed and is      *)
(* abandoned.  An                                                          *)
(* optional JavaScript value is a sequence of length 0 (undefined) or 1    *)
(* (the value).                                                            *)
(*                                                                         *)
(* Three collaborators are imported by the file and modelled from their    *)
(* documented behaviour: usePrevious (utils/hooks) returns the value of    *)
(* the render before; SwipeWindow (components/SwipeWindow) removes the top *)
(* card through setRestaurants and calls setFinished(true) after the last  *)
(* one; the parent replaces props.party by each value the server pushes.   *)
(* An Alert dialog is modal, and a new one takes the place of the one on   *)
(* display.                                                                *)
(***************************************************************************)
EXTENDS Integers, Sequences, FiniteSets, TLC

VARIABLES
    party,        \* props.party: the Party value last set by setParty
    prevRef,      \* the ref kept by usePrevious(party || {})
    restaurants,  \* React state `restaurants` (the Local Queue), optional
    aliased,      \* TRUE iff `restaurants` is the very array party.restaurants
    finished,     \* React state `finished`
    details,      \* React state `details`, optional restaurant
    pending,      \* optional: the effects of the render on display have not run;
                  \* the value says whether that render got another `restaurants`
    behind,       \* TRUE iff the last render pass of the component took in a
                  \* state update of its own: React then starts a render pass
                  \* also for a setter that is given the value the state holds
    alert,        \* the Alert dialog on display: "none", "error" or "exit"
    nav,          \* the route last asked of navigation.navigate
    out,          \* the messages handed to ws.send by the last task, in order
    event,        \* the task that ran last
    seen,         \* optional record: ids in the order the pushes first delivered them
    asked         \* optional record: a request-more went out in this pass of the deck

vars == <<party, prevRef, restaurants, aliased, finished, details, pending,
          behind, alert, nav, out, event, seen, asked>>

(***************************************************************************)
(* Bounds of the model.                                                    *)
(***************************************************************************)
DeckLen == 4
MaxQueue == 5

(***************************************************************************)
(* Optional values.                                                        *)
(***************************************************************************)
None == <<>>

Some(x) == <<x>>

(***************************************************************************)
(* The low-queue threshold of the request-more effect.                     *)
(***************************************************************************)
LowQueue == 3

(***************************************************************************)
(* Party values.  `{} as Party` has every field absent.                    *)
(***************************************************************************)
EmptyParty ==
    [id |-> "", status |-> "", restaurants |-> None, current |-> None,
     total |-> None, error |-> ""]

Deck == [i \in 1..DeckLen |-> i]

Decks == {Some(Deck)}

Batches == {None, Some(<<DeckLen + 1, DeckLen + 2>>)}

(* A party that has ended before its deck was delivered.                   *)
EndedParty ==
    [id |-> "AB12", status |-> "active", restaurants |-> None,
     current |-> None, total |-> Some(0), error |-> ""]

Totals == {Some(0), Some(DeckLen)}

Pushes ==
    [id : {"AB12"}, status : {"waiting", "active"}, restaurants : Decks,
     current : Batches, total : Totals, error : {""}]
    \cup [id : {"AB12"}, status : {"active"}, restaurants : Decks,
          current : Batches, total : {Some(DeckLen)},
          error : {"party not found"}]
    \cup {EndedParty}

(***************************************************************************)
(* Outbound messages.                                                      *)
(***************************************************************************)
RequestMore == [type |-> "request-more", payload |-> None]

Quit == [type |-> "quit", payload |-> None]

SwipeRightMsg(id) == [type |-> "swipe-right", payload |-> Some(id)]

(***************************************************************************)
(* JSON.stringify of an optional array of restaurants.  A restaurant is    *)
(* modelled by its id; JSON.stringify(undefined) is undefined, which no    *)
(* string equals.                                                          *)
(***************************************************************************)
RECURSIVE StringifyItems(_)
StringifyItems(s) ==
    IF s = <<>> THEN ""
    ELSE "{\"id\":" \o ToString(Head(s)) \o "}"
         \o (IF Len(s) > 1 THEN "," ELSE "") \o StringifyItems(Tail(s))

Stringify(opt) ==
    IF opt = None THEN None ELSE Some("[" \o StringifyItems(opt[1]) \o "]")

(***************************************************************************)
(* A request-more effect with no dependency array: it runs in every        *)
(* render.                                                                 *)
(***************************************************************************)
RequestMoreEveryRender(rest, restChanged) ==
    IF rest # None /\ Len(rest[1]) = LowQueue THEN <<RequestMore>> ELSE <<>>

(***************************************************************************)
(* A request-more effect that asks at the threshold and below it.          *)
(***************************************************************************)
RequestMoreBelow(rest, restChanged) ==
    IF restChanged /\ rest # None /\ Len(rest[1]) <= LowQueue
    THEN <<RequestMore>>
    ELSE <<>>

(***************************************************************************)
(* The request-more effect: what it sends in a render.  It runs when one   *)
(* of its dependencies [restaurants, ws] is another object than in the     *)
(* render before; ws is the same handle throughout.                        *)
(***************************************************************************)
RequestMoreEffect(rest, restChanged) ==
    IF restChanged /\ rest # None /\ Len(rest[1]) = LowQueue
    THEN <<RequestMore>>
    ELSE <<>>

(***************************************************************************)
(* A merge effect that puts the new batch in front of the queue.           *)
(***************************************************************************)
MergePrepends(prevState, p, rest) ==
    IF Stringify(prevState.current) # Stringify(p.current)
       /\ p.current # None /\ Len(p.current[1]) # 0 /\ rest # None
    THEN Some(p.current[1] \o rest[1])
    ELSE None

(***************************************************************************)
(* A merge effect that appends the new batch last card first.              *)
(***************************************************************************)
MergeReversesBatch(prevState, p, rest) ==
    IF Stringify(prevState.current) # Stringify(p.current)
       /\ p.current # None /\ Len(p.current[1]) # 0 /\ rest # None
    THEN Some(rest[1] \o [i \in 1..Len(p.current[1])
                             |-> p.current[1][Len(p.current[1]) + 1 - i]])
    ELSE None

(***************************************************************************)
(* A merge effect that compares the whole Party values, not their          *)
(* `current` fields.                                                       *)
(***************************************************************************)
MergeOnAnyPartyChange(prevState, p, rest) ==
    IF prevState # p
       /\ p.current # None /\ Len(p.current[1]) # 0 /\ rest # None
    THEN Some(rest[1] \o p.current[1])
    ELSE None

(***************************************************************************)
(* A merge effect that puts the new batch in place of the queue.           *)
(***************************************************************************)
MergeReplaces(prevState, p, rest) ==
    IF Stringify(prevState.current) # Stringify(p.current)
       /\ p.current # None /\ Len(p.current[1]) # 0 /\ rest # None
    THEN Some(p.current[1])
    ELSE None

(***************************************************************************)
(* The merge effect: the argument of its setRestaurants call, or None when *)
(* it makes no call.                                                       *)
(***************************************************************************)
MergeEffect(prevState, p, rest) ==
    IF Stringify(prevState.current) # Stringify(p.current)
       /\ p.current # None /\ Len(p.current[1]) # 0 /\ rest # None
    THEN Some(rest[1] \o p.current[1])
    ELSE None

(***************************************************************************)
(* usePrevious: the value it returns in a render is the ref's content, and *)
(* its effect stores the render's value in the ref.                        *)
(***************************************************************************)
UsePrevious(ref, value) == [returned |-> ref, stored |-> value]

(***************************************************************************)
(* The passive effects of one committed render, in the order of the hooks: *)
(* the request-more effect, the effect of usePrevious, the merge effect.   *)
(* ref is the usePrevious ref when the render ran, restChanged says        *)
(* whether `restaurants` was another array than in the render before.      *)
(* The merge effect's dependencies are [party, prevState, restaurants]; in *)
(* a render where none of them changed, prevState.current and              *)
(* party.current are the same value and running it does nothing.           *)
(* The result holds the messages sent, the ref and the argument of the     *)
(* merge effect's setRestaurants call (None when it makes none).           *)
(***************************************************************************)
Effects(ref, p, rest, restChanged) ==
    LET prev == UsePrevious(ref, p)
    IN  [out    |-> RequestMoreEffect(rest, restChanged),
         ref    |-> prev.stored,
         merged |-> MergeEffect(prev.returned, p, rest)]

(***************************************************************************)
(* A render that tests for the exhausted view before the waiting view.     *)
(***************************************************************************)
ViewExhaustedFirst(p, fin) ==
    IF fin \/ p.total = Some(0) THEN "exhausted"
    ELSE IF p.status = "waiting" THEN "waiting"
    ELSE IF p.restaurants = None THEN "loading"
    ELSE "active"

(***************************************************************************)
(* A render whose exhausted branch tests the finished flag only.           *)
(***************************************************************************)
ViewByFinishedOnly(p, fin) ==
    IF p.status = "waiting" THEN "waiting"
    ELSE IF fin THEN "exhausted"
    ELSE IF p.restaurants = None THEN "loading"
    ELSE "active"

(***************************************************************************)
(* The view the render returns.                                            *)
(***************************************************************************)
View(p, fin) ==
    IF p.status = "waiting" THEN "waiting"
    ELSE IF fin \/ p.total = Some(0) THEN "exhausted"
    ELSE IF p.restaurants = None THEN "loading"
    ELSE "active"

(***************************************************************************)
(* The list SwipeWindow is given: restaurants || party.restaurants.        *)
(***************************************************************************)
Shown(p, rest) == IF rest # None THEN rest ELSE p.restaurants

(***************************************************************************)
(* The ids of a list that `seen` does not hold yet, appended in order.     *)
(***************************************************************************)
RECURSIVE FirstSeen(_, _)
FirstSeen(order, q) ==
    IF q = <<>> THEN order
    ELSE IF \E i \in 1..Len(order) : order[i] = Head(q)
         THEN FirstSeen(order, Tail(q))
         ELSE FirstSeen(Append(order, Head(q)), Tail(q))

Note(order, rest) == IF rest = None THEN order ELSE FirstSeen(order, rest[1])

(***************************************************************************)
(* The delivery order once Party value p has arrived: party.restaurants    *)
(* counts as delivered before party.current.  None when no record is kept. *)
(***************************************************************************)
Delivered(order, p) ==
    IF order = None THEN None
    ELSE Some(Note(Note(order[1], p.restaurants), p.current))

(***************************************************************************)
(* Whether a request-more has gone out since the deck was last put before  *)
(* the user (at mount or by Start Over), brought up to date at the end of  *)
(* a task.  What a Start Over that renders sends is owed by the render     *)
(* before it and belongs to the pass before; a Start Over that changes     *)
(* nothing starts no pass.  None when no record is kept.                   *)
(***************************************************************************)
SameQueue ==
    IF aliased THEN TRUE ELSE restaurants = None /\ party.restaurants = None

Track ==
    asked' = IF asked = None THEN None
             ELSE IF event' = "start-over" /\ (finished \/ ~SameQueue)
                  THEN Some(FALSE)
             ELSE Some((\E i \in 1..Len(out') : out'[i] = RequestMore)
                       \/ asked[1])

(***************************************************************************)
(* The state after construction: the component has mounted with the empty  *)
(* Party, its first render has run and found nothing to do.                *)
(***************************************************************************)
Init ==
    /\ party = EmptyParty
    /\ prevRef = EmptyParty
    /\ restaurants = None
    /\ aliased = FALSE
    /\ finished = FALSE
    /\ details = None
    /\ pending = None
    /\ behind = FALSE
    /\ alert = "none"
    /\ nav = "Party"
    /\ out = <<>>
    /\ event = "mount"
    /\ seen = None
    /\ asked = None

InitHistory ==
    /\ party = EmptyParty
    /\ prevRef = EmptyParty
    /\ restaurants = None
    /\ aliased = FALSE
    /\ finished = FALSE
    /\ details = None
    /\ pending = None
    /\ behind = FALSE
    /\ alert = "none"
    /\ nav = "Party"
    /\ out = <<>>
    /\ event = "mount"
    /\ seen = Some(<<>>)
    /\ asked = None

InitPasses ==
    /\ party = EmptyParty
    /\ prevRef = EmptyParty
    /\ restaurants = None
    /\ aliased = FALSE
    /\ finished = FALSE
    /\ details = None
    /\ pending = None
    /\ behind = FALSE
    /\ alert = "none"
    /\ nav = "Party"
    /\ out = <<>>
    /\ event = "mount"
    /\ seen = None
    /\ asked = Some(FALSE)

(***************************************************************************)
(* What running the effects the render on display owes would do; nothing   *)
(* when they have run already.                                             *)
(***************************************************************************)
Flushed ==
    IF pending = None
    THEN [out |-> <<>>, ref |-> prevRef, merged |-> None]
    ELSE Effects(prevRef, party, restaurants, pending[1])

(***************************************************************************)
(* The rest of a handler task once the handler has returned: the pending   *)
(* effects run, then the render with Party value p and its commit.  rest   *)
(* is `restaurants` as the handler leaves it, restChanged whether the      *)
(* handler put another array there, alias whether that array is            *)
(* party.restaurants itself; a setRestaurants of the merge effect comes    *)
(* after the handler's and wins.  sentFirst is what the handler sent,      *)
(* shown the dialog the handler leaves on display, own whether the handler *)
(* changed state of the component (and not only its props).                *)
(***************************************************************************)
Rerender(p, rest, restChanged, alias, shown, sentFirst, own) ==
    LET f == Flushed
    IN  /\ restaurants' = (IF f.merged # None THEN f.merged ELSE rest)
        /\ aliased' = (IF f.merged # None THEN FALSE ELSE alias)
        /\ prevRef' = f.ref
        /\ out' = sentFirst \o f.out
        /\ alert' = IF p.error # "" THEN "error" ELSE shown
        /\ pending' = Some(IF f.merged # None THEN TRUE ELSE restChanged)
        /\ behind' = (own \/ f.merged # None)
        /\ seen' = Delivered(seen, p)

(***************************************************************************)
(* The user can touch the screen: it is the route on display and no Alert  *)
(* dialog covers it.                                                       *)
(***************************************************************************)
Touchable == nav = "Party" /\ alert = "none"

(***************************************************************************)
(* A Party value arrives from the server: setParty(p).                     *)
(***************************************************************************)
PushWithin(p, cap) ==
    /\ LET f    == Flushed
           rest == IF f.merged # None THEN f.merged ELSE restaurants
           next == MergeEffect(f.ref, p, rest)
       IN  IF next = None THEN TRUE ELSE Len(next[1]) <= cap
    /\ party' = p
    /\ Rerender(p, restaurants, FALSE, FALSE, alert, <<>>, FALSE)
    /\ event' = "push"
    /\ UNCHANGED <<finished, details, nav>>
    /\ Track

Push(p) == PushWithin(p, MaxQueue)

(***************************************************************************)
(* The effects owed run: what they send goes out and the ref is stored.    *)
(* When the merge effect calls setRestaurants the component renders again  *)
(* (the render body raises the error alert again) and that render's        *)
(* effects are owed in turn.                                               *)
(***************************************************************************)
RunEffects ==
    LET f == Flushed
    IN  /\ out' = f.out
        /\ prevRef' = f.ref
        /\ IF f.merged # None
           THEN /\ restaurants' = f.merged
                /\ aliased' = FALSE
                /\ pending' = Some(TRUE)
                /\ alert' = IF party.error # "" THEN "error" ELSE alert
           ELSE /\ pending' = None
                /\ UNCHANGED <<restaurants, aliased, alert>>

(***************************************************************************)
(* The effects of the render that a setRestaurants of the merge effect     *)
(* asks for, f being what the effects owed do: that render has the Party   *)
(* value on display and the merged queue.  Nothing when f merges nothing   *)
(* and no render follows.                                                  *)
(***************************************************************************)
AfterMerge(f) ==
    IF f.merged = None
    THEN [out |-> <<>>, ref |-> f.ref, merged |-> None]
    ELSE Effects(f.ref, party, f.merged, TRUE)

(***************************************************************************)
(* The rest of a handler task whose setters were all given the value the   *)
(* state holds.  React drops them when the component has no update behind  *)
(* it.  Otherwise it starts a render pass, which runs the effects owed and *)
(* is abandoned unless the merge effect calls setRestaurants.              *)
(***************************************************************************)
SameValue ==
    IF behind
    THEN /\ RunEffects
         /\ behind' = (Flushed.merged # None)
    ELSE /\ out' = <<>>
         /\ UNCHANGED <<restaurants, aliased, prevRef, pending, behind, alert>>

(***************************************************************************)
(* The task of an Alert button whose handler sends sentFirst, calls        *)
(* navigation.navigate(route) and then setParty({} as Party).  The render  *)
(* pass that navigate causes runs the effects owed; when the merge effect  *)
(* calls setRestaurants, the component renders in that pass with the Party *)
(* value it still has, and the render body raises the error alert again    *)
(* when that value carries an error.  The render pass that setParty causes *)
(* runs the effects of that render and renders the empty Party.            *)
(***************************************************************************)
OkPress(route, sentFirst) ==
    LET f == Flushed
        g == AfterMerge(f)
    IN  /\ nav' = route
        /\ party' = EmptyParty
        /\ restaurants' = (IF g.merged # None THEN g.merged
                           ELSE IF f.merged # None THEN f.merged
                           ELSE restaurants)
        /\ aliased' = FALSE
        /\ prevRef' = g.ref
        /\ out' = sentFirst \o f.out \o g.out
        /\ alert' = IF f.merged # None /\ party.error # "" THEN "error"
                    ELSE "none"
        /\ pending' = Some(g.merged # None)
        /\ behind' = (g.merged # None)
        /\ seen' = Delivered(seen, EmptyParty)

(***************************************************************************)
(* An OK button of the error alert that sends `quit` as the exit dialog    *)
(* does.                                                                   *)
(***************************************************************************)
ErrorAckSendsQuit ==
    /\ alert = "error"
    /\ OkPress("Join", <<Quit>>)
    /\ event' = "error-ok"
    /\ UNCHANGED <<finished, details>>
    /\ Track

(***************************************************************************)
(* The OK button of the error alert.                                       *)
(***************************************************************************)
ErrorAck ==
    /\ alert = "error"
    /\ OkPress("Join", <<>>)
    /\ event' = "error-ok"
    /\ UNCHANGED <<finished, details>>
    /\ Track

(***************************************************************************)
(* onBackPress and the two buttons of its alert.                           *)
(***************************************************************************)
BackPress ==
    /\ Touchable
    /\ alert' = "exit"
    /\ out' = <<>>
    /\ event' = "back"
    /\ UNCHANGED <<party, prevRef, restaurants, aliased, finished, details,
                   pending, behind, nav, seen>>
    /\ Track

ExitCancel ==
    /\ alert = "exit"
    /\ alert' = "none"
    /\ out' = <<>>
    /\ event' = "exit-cancel"
    /\ UNCHANGED <<party, prevRef, restaurants, aliased, finished, details,
                   pending, behind, nav, seen>>
    /\ Track

(* An exit OK button that also discards the Local Queue.                   *)
ExitOkClearsQueue ==
    /\ alert = "exit"
    /\ nav' = "Home"
    /\ party' = EmptyParty
    /\ Rerender(EmptyParty, None, restaurants # None, FALSE, "none", <<Quit>>,
                FALSE)
    /\ event' = "exit-ok"
    /\ UNCHANGED <<finished, details>>
    /\ Track

(* An exit OK button that leaves the Party value in place.                 *)
ExitOkKeepsParty ==
    /\ alert = "exit"
    /\ nav' = "Home"
    /\ alert' = "none"
    /\ out' = <<Quit>>
    /\ event' = "exit-ok"
    /\ UNCHANGED <<party, prevRef, restaurants, aliased, finished, details,
                   pending, behind, seen>>
    /\ Track

ExitOk ==
    /\ alert = "exit"
    /\ OkPress("Home", <<Quit>>)
    /\ event' = "exit-ok"
    /\ UNCHANGED <<finished, details>>
    /\ Track

(***************************************************************************)
(* The Start Over button of the exhausted view: setFinished(false) and     *)
(* setRestaurants(party.restaurants).                                      *)
(***************************************************************************)
StartOver ==
    /\ Touchable
    /\ View(party, finished) = "exhausted"
    /\ finished' = FALSE
    /\ IF SameQueue /\ ~finished
       THEN /\ SameValue
            /\ seen' = seen
       ELSE Rerender(party, party.restaurants, ~SameQueue,
                     party.restaurants # None, alert, <<>>, TRUE)
    /\ event' = "start-over"
    /\ UNCHANGED <<party, details, nav>>
    /\ Track

(***************************************************************************)
(* A handleSwipeRight that sends its message a second time.                *)
(***************************************************************************)
HandleSwipeRightTwice(id) == <<SwipeRightMsg(id), SwipeRightMsg(id)>>

(***************************************************************************)
(* handleSwipeRight(id).                                                   *)
(***************************************************************************)
HandleSwipeRight(id) == <<SwipeRightMsg(id)>>

(***************************************************************************)
(* SwipeWindow is mounted by the active view only and takes swipes while   *)
(* it is visible (no details open) and holds a card.                       *)
(***************************************************************************)
CanSwipe ==
    /\ Touchable
    /\ View(party, finished) = "active"
    /\ details = None
    /\ Shown(party, restaurants) # None
    /\ Len(Shown(party, restaurants)[1]) > 0

(***************************************************************************)
(* SwipeWindow consumes the top card: it calls setRestaurants with the     *)
(* list it was given less its first card, and setFinished(true) when that  *)
(* was the last card.  approve says whether the swipe was to the right.    *)
(***************************************************************************)
Consume(cards) == Tail(cards)

Swipe(approve) ==
    /\ CanSwipe
    /\ LET cards == Shown(party, restaurants)[1]
           left  == Consume(cards)
       IN  /\ finished' = (IF left = <<>> THEN TRUE ELSE finished)
           /\ Rerender(party, Some(left), TRUE, FALSE, alert,
                       IF approve THEN HandleSwipeRight(Head(cards)) ELSE <<>>,
                       TRUE)
    /\ event' = IF approve THEN "swipe-right" ELSE "swipe-left"
    /\ UNCHANGED <<party, details, nav>>
    /\ Track

SwipeLeft == Swipe(FALSE)

SwipeRight == Swipe(TRUE)

(***************************************************************************)
(* setDetails(restaurant) from SwipeWindow, and setDetails(undefined) from *)
(* the Details panel or from the ScrollView reaching offset 0.             *)
(***************************************************************************)
OpenDetails ==
    /\ CanSwipe
    /\ details' = Some(Head(Shown(party, restaurants)[1]))
    /\ Rerender(party, restaurants, FALSE, aliased, alert, <<>>, TRUE)
    /\ event' = "details"
    /\ UNCHANGED <<party, finished, nav>>
    /\ Track

CloseDetails ==
    /\ Touchable
    /\ View(party, finished) = "active"
    /\ details' = None
    /\ IF details # None
       THEN Rerender(party, restaurants, FALSE, aliased, alert, <<>>, TRUE)
       ELSE /\ SameValue
            /\ seen' = seen
    /\ event' = "details-closed"
    /\ UNCHANGED <<party, finished, nav>>
    /\ Track

(***************************************************************************)
(* React runs the effects the render on display owes, in a task of its     *)
(* own.                                                                    *)
(***************************************************************************)
Flush ==
    /\ pending # None
    /\ RunEffects
    /\ behind' = (behind \/ Flushed.merged # None)
    /\ event' = "effects"
    /\ UNCHANGED <<party, finished, details, nav, seen>>
    /\ Track

Next ==
    \/ \E p \in Pushes : Push(p)
    \/ ErrorAck
    \/ BackPress
    \/ ExitCancel
    \/ ExitOk
    \/ StartOver
    \/ SwipeLeft
    \/ SwipeRight
    \/ OpenDetails
    \/ CloseDetails
    \/ Flush

(***************************************************************************)
(* The program, and the program with the delivery order on record.         *)
(***************************************************************************)
Spec == Init /\ [][Next]_vars

SpecHistory == InitHistory /\ [][Next]_vars

(***************************************************************************)
(* The program fed by a server whose deck is no longer than the threshold  *)
(* of the request-more effect, with the requests of each pass on record.   *)
(* This server sends active parties without error, so the error alert      *)
(* never comes up.                                                         *)
(***************************************************************************)
ShortDeck == [i \in 1..LowQueue |-> i]

ShortPushes ==
    [id : {"AB12"}, status : {"active"},
     restaurants : {Some(ShortDeck)}, current : Batches, total : Totals,
     error : {""}]

NextShort ==
    \/ \E p \in ShortPushes : Push(p)
    \/ BackPress
    \/ ExitCancel
    \/ ExitOk
    \/ StartOver
    \/ SwipeLeft
    \/ SwipeRight
    \/ OpenDetails
    \/ CloseDetails
    \/ Flush

SpecShort == InitPasses /\ [][NextShort]_vars

(***************************************************************************)
(* The program fed by the pushes of the worked example: a waiting party,   *)
(* then the active party with a deck of ten, then a batch of three more.   *)
(* The server sends no error here, so the error alert never comes up.      *)
(***************************************************************************)
ScenarioDeck == [i \in 1..10 |-> i]

ScenarioBatch == <<11, 12, 13>>

ScenarioWaiting == [EmptyParty EXCEPT !.id = "AB12", !.status = "waiting"]

ScenarioActive ==
    [EmptyParty EXCEPT !.status = "active", !.restaurants = Some(ScenarioDeck),
                       !.total = Some(Len(ScenarioDeck))]

ScenarioMore ==
    [EmptyParty EXCEPT !.current = Some(ScenarioBatch),
                       !.total = Some(Len(ScenarioDeck) + Len(ScenarioBatch))]

(* The same batch when the server repeats the fields of the active party. *)
ScenarioMoreWhole ==
    [ScenarioActive EXCEPT !.current = Some(ScenarioBatch),
                           !.total = Some(Len(ScenarioDeck) + Len(ScenarioBatch))]

ScenarioPushes ==
    {ScenarioWaiting, ScenarioActive, ScenarioMore, ScenarioMoreWhole}

ScenarioPush(p) == PushWithin(p, Len(ScenarioDeck) + Len(ScenarioBatch))

NextScenario ==
    \/ \E p \in ScenarioPushes : ScenarioPush(p)
    \/ BackPress
    \/ ExitCancel
    \/ ExitOk
    \/ StartOver
    \/ SwipeLeft
    \/ SwipeRight
    \/ OpenDetails
    \/ CloseDetails
    \/ Flush

SpecScenario == Init /\ [][NextScenario]_vars

(***************************************************************************)
(* Shape of the state.                                                     *)
(***************************************************************************)
TypeOK ==
    /\ party \in Pushes \cup {EmptyParty}
    /\ IF pending = None THEN prevRef = party ELSE TRUE
    /\ IF restaurants = None THEN TRUE ELSE Len(restaurants[1]) <= MaxQueue
    /\ aliased \in BOOLEAN /\ finished \in BOOLEAN /\ behind \in BOOLEAN
    /\ alert \in {"none", "error", "exit"}
    /\ nav \in {"Party", "Join", "Home"}
    /\ aliased => restaurants = party.restaurants

(***************************************************************************)
(* Vocabulary of the properties.                                           *)
(***************************************************************************)
SwipeEvents == {"swipe-left", "swipe-right"}

CountRequestMore(msgs) ==
    Cardinality({i \in 1..Len(msgs) : msgs[i] = RequestMore})

NoDuplicate(q) == \A i, j \in 1..Len(q) : q[i] = q[j] => i = j

Position(order, id) == CHOOSE i \in 1..Len(order) : order[i] = id

InOrderOf(q, order) ==
    /\ \A i \in 1..Len(q) : \E k \in 1..Len(order) : order[k] = q[i]
    /\ \A i, j \in 1..Len(q) :
          i < j => Position(order, q[i]) <= Position(order, q[j])

NonEmpty(opt) == opt # None /\ Len(opt[1]) > 0

(* Active of the lifecycle: no error, not waiting, not exhausted, loaded.  *)
Active == party.error = "" /\ View(party, finished) = "active"

(* The step runs the effects that the render on display owes: it is Flush, *)
(* or a handler task that starts a render pass (a task whose setters all   *)
(* get the value the state holds starts one only with an update behind).   *)
EffectsRun ==
    /\ pending # None
    /\ event' \notin {"back", "exit-cancel"}
    /\ IF (event' = "start-over" /\ SameQueue /\ ~finished)
          \/ (event' = "details-closed" /\ details = None)
       THEN behind
       ELSE TRUE

(* The buttons that reset Party to the empty value.                        *)
ResetEvents == {"error-ok", "exit-ok"}

(* What the effects owed send when they are left to run, those of the      *)
(* render after a merge included.                                          *)
OwedMessages == Flushed.out \o AfterMerge(Flushed).out

(* The render on display got a batch the merge effect takes for new.       *)
NewBatch ==
    /\ NonEmpty(party.current)
    /\ Stringify(party.current) # Stringify(prevRef.current)

(***************************************************************************)
(* C1.  The Local Queue never holds a restaurant id twice, and its ids     *)
(* stand in the order in which the pushes first delivered them.            *)
(* Checked under SpecHistory.  The code appends every batch it takes for   *)
(* new without looking at the ids the queue holds.                         *)
(***************************************************************************)
C1_QueueUniqueInFirstSeenOrder ==
    (restaurants # None /\ seen # None) =>
        /\ NoDuplicate(restaurants[1])
        /\ InOrderOf(restaurants[1], seen[1])

(***************************************************************************)
(* C2.  Once party.restaurants has been delivered, a push whose `current`  *)
(* is non-empty and differs from the `current` of the push before is       *)
(* appended to the Local Queue when the effects of its render run, whether *)
(* or not a card has been swiped yet.  Before the first swipe              *)
(* `restaurants` is undefined and the code drops the batch.                *)
(***************************************************************************)
C2_NewBatchMergedOnce ==
    [][(/\ EffectsRun
        /\ party.restaurants # None
        /\ NewBatch)
       => /\ restaurants' # None
          /\ restaurants'[1]
               = Shown(party, restaurants)[1] \o party.current[1]]_vars

(***************************************************************************)
(* C3.  The effects of a render whose party.current serializes to the same *)
(* text as the `current` of the render before append nothing, whatever     *)
(* else of Party changed and whether or not the Local Queue changed: the   *)
(* task of React that runs them leaves the Local Queue as it was, and a    *)
(* push that comes first leaves it as it was.                              *)
(***************************************************************************)
C3_SameCurrentNoAppend ==
    [][(/\ pending # None
        /\ Stringify(party.current) = Stringify(prevRef.current)
        /\ event' \in {"effects", "push"})
       => restaurants' = restaurants]_vars

C3_Witness ==
    /\ event = "effects"
    /\ pending = None
    /\ restaurants # None
    /\ NonEmpty(party.current)
    /\ \A i \in 1..Len(restaurants[1]) : restaurants[1][i] # party.current[1][1]
    /\ party.total = Some(0)

(***************************************************************************)
(* C4.  A swipe that leaves the Local Queue at length 3 leaves the         *)
(* request-more check owed; when the effects of a render that got a new    *)
(* Local Queue of length 3 run, exactly one request-more is sent, and that *)
(* is before the next render; a task that leaves the Local Queue as it is  *)
(* sends none unless it runs the effects of a render that got a new Local  *)
(* Queue.                                                                  *)
(***************************************************************************)
C4_OneRequestAtThree ==
    [][/\ (event' \in SwipeEvents
           /\ restaurants' # None /\ Len(restaurants'[1]) = LowQueue)
          => pending' = Some(TRUE)
       /\ (/\ EffectsRun
           /\ pending = Some(TRUE)
           /\ restaurants # None /\ Len(restaurants[1]) = LowQueue)
          => CountRequestMore(out') = 1
       /\ (restaurants' = restaurants
           /\ (IF EffectsRun THEN pending # Some(TRUE) ELSE TRUE))
          => CountRequestMore(out') = 0]_vars

C4_Witness ==
    /\ event = "effects"
    /\ pending = None
    /\ restaurants # None
    /\ Len(restaurants[1]) = LowQueue
    /\ restaurants[1][LowQueue] <= DeckLen
    /\ CountRequestMore(out) = 1

(***************************************************************************)
(* C5.  A request-more is sent only by a render of the Active state: not   *)
(* while party.status is 'waiting', not while exhausted, not while         *)
(* party.error is set.  The effect looks at the length of `restaurants`    *)
(* alone.                                                                  *)
(***************************************************************************)
C5_RequestMoreOnlyActive ==
    [][CountRequestMore(out') > 0 => Active]_vars

(***************************************************************************)
(* C6.  While party.error is set, nothing but the error is acted on: the   *)
(* alert is up, and the effects of a render with party.error set send no   *)
(* request-more and merge no batch into the Local Queue.  The code raises  *)
(* the alert and goes on with both effects.                                *)
(***************************************************************************)
C6_ErrorPreempts ==
    [][/\ party'.error # "" => alert' = "error"
       /\ (party.error # "" /\ event' = "effects")
          => /\ CountRequestMore(out') = 0
             /\ restaurants' = restaurants]_vars

(***************************************************************************)
(* C7.  Whenever party.error is set the error alert is up, whatever the    *)
(* view; its OK button resets Party to the empty value, navigates to Join  *)
(* and sends nothing: its task sends what the effects owed send when left  *)
(* to run and no more, and never a quit.                                   *)
(***************************************************************************)
C7_ErrorAckResetsSilently ==
    [][/\ party'.error # "" => alert' = "error"
       /\ event' = "error-ok"
          => /\ party' = EmptyParty
             /\ nav' = "Join"
             /\ out' = OwedMessages
             /\ \A i \in 1..Len(out') : out'[i] # Quit]_vars

C7_Witness ==
    /\ event = "error-ok"
    /\ nav = "Join"
    /\ party = EmptyParty
    /\ restaurants # None
    /\ Len(restaurants[1]) = LowQueue

(***************************************************************************)
(* C8, as the claim has it.  With party.total = 0 and cards left in the    *)
(* Local Queue the exhausted view is not shown.                            *)
(***************************************************************************)
C8_ExhaustedOnlyWhenDrained ==
    (party.total = Some(0) /\ ~finished
     /\ NonEmpty(Shown(party, restaurants)))
    => View(party, finished) # "exhausted"

(***************************************************************************)
(* C8, amended.  While party.total is 0 the swipe window is not rendered   *)
(* (the exhausted view, or the waiting view, takes its place at once), so  *)
(* no card is swiped, whatever the Local Queue holds.                      *)
(***************************************************************************)
C8_TotalZeroStopsSwiping ==
    [][party.total = Some(0)
       => /\ View(party, finished) \in {"exhausted", "waiting"}
          /\ event' \notin SwipeEvents]_vars

C8_Witness ==
    /\ event = "push"
    /\ party.total = Some(0)
    /\ party.status = "active"
    /\ ~finished
    /\ restaurants # None
    /\ Len(restaurants[1]) > 0
    /\ View(party, finished) = "exhausted"

(***************************************************************************)
(* C9.  Start Over sets the Local Queue to party.restaurants, without the  *)
(* batches appended since, and clears the finished flag.  When the effects *)
(* of a push are still owed, the merge effect's setRestaurants comes after *)
(* the button's and the Local Queue is the old one with the batch.         *)
(***************************************************************************)
C9_StartOverResets ==
    [][event' = "start-over"
       => /\ restaurants' = party.restaurants
          /\ finished' = FALSE]_vars

(***************************************************************************)
(* C10.  After the exit dialog's OK (quit sent, navigation to Home asked   *)
(* for) the effects of a render with a Party value pushed since send       *)
(* nothing and leave the Local Queue as it was.  The effects have no such  *)
(* guard.                                                                  *)
(***************************************************************************)
C10_NoActionAfterExit ==
    [][(nav = "Home" /\ party # EmptyParty /\ event' = "effects")
       => /\ out' = <<>>
          /\ restaurants' = restaurants]_vars

(***************************************************************************)
(* C11.  The OK button of the exit dialog sends exactly one quit, before    *)
(* anything the effects owed send when left to run, asks for the Home      *)
(* route and resets Party to the empty value, whatever view was up; the    *)
(* Cancel button sends nothing and leaves Party, the Local Queue, the      *)
(* finished flag and the route as they were.                               *)
(***************************************************************************)
C11_ExitConfirmAndCancel ==
    [][/\ event' = "exit-ok"
          => /\ out' = <<Quit>> \o OwedMessages
             /\ Cardinality({i \in 1..Len(out') : out'[i] = Quit}) = 1
             /\ nav' = "Home"
             /\ party' = EmptyParty
       /\ event' = "exit-cancel"
          => /\ out' = <<>>
             /\ party' = party
             /\ restaurants' = restaurants
             /\ finished' = finished
             /\ nav' = nav]_vars

C11_Witness ==
    /\ event = "exit-ok"
    /\ out = <<Quit>>
    /\ nav = "Home"
    /\ party = EmptyParty
    /\ finished

(***************************************************************************)
(* C12, as the claim has it.  The state on display follows Error >         *)
(* Exhausted > Waiting > Loading > Active; the error alert counts as the   *)
(* Error state being on display.                                           *)
(***************************************************************************)
ClaimedLifecycle(p, fin) ==
    IF p.error # "" THEN "error"
    ELSE IF fin \/ p.total = Some(0) THEN "exhausted"
    ELSE IF p.status = "waiting" THEN "waiting"
    ELSE IF p.restaurants = None THEN "loading"
    ELSE "active"

C12_ClaimedPrecedence ==
    (IF party.error # "" /\ alert = "error" THEN "error"
     ELSE View(party, finished)) = ClaimedLifecycle(party, finished)

(***************************************************************************)
(* C12, amended.  The alert is up whenever party.error is set, and the     *)
(* view follows Waiting > Exhausted > Loading > Active: with status        *)
(* 'waiting' the waiting view is rendered also when finished is set or     *)
(* total is 0, so Start Over is pressed only when status is not 'waiting', *)
(* and a card is swiped only when none of the other conditions holds.      *)
(***************************************************************************)
C12_WaitingBeforeExhausted ==
    [][/\ party.error # "" => alert = "error"
       /\ party.status = "waiting"
          => /\ View(party, finished) = "waiting"
             /\ event' \notin SwipeEvents \cup {"start-over"}
       /\ event' = "start-over"
          => (finished \/ party.total = Some(0))
       /\ (party.status # "waiting" /\ (finished \/ party.total = Some(0)))
          => View(party, finished) = "exhausted"
       /\ event' \in SwipeEvents
          => /\ ~finished
             /\ party.total # Some(0)
             /\ party.restaurants # None
       /\ (party = EmptyParty /\ ~finished)
          => View(party, finished) = "loading"]_vars

C12_Witness ==
    /\ party.status = "waiting"
    /\ party.total = Some(0)
    /\ finished
    /\ View(party, finished) = "waiting"

(***************************************************************************)
(* C13.  The worked example.  The push of the active party with its deck   *)
(* of ten, coming before any swipe, puts r1..r10 before the user.  Each of *)
(* the first seven swipes of that deck takes the top card off.  Of the     *)
(* renders these swipes cause, the one that got r8, r9, r10 sends a        *)
(* request-more when its effects run, exactly one, and the others send     *)
(* none.  The effects of the render that got the batch r11, r12, r13 with  *)
(* that remainder make the Local Queue r8..r13.                            *)
(***************************************************************************)
ScenarioRest(k) == SubSeq(ScenarioDeck, k + 1, Len(ScenarioDeck))

C13_WorkedExample ==
    [][/\ (event' = "push" /\ party' = ScenarioActive /\ restaurants = None)
          => Shown(party', restaurants') = Some(ScenarioDeck)
       /\ \A k \in 0..(Len(ScenarioDeck) - LowQueue - 1) :
            (/\ event' \in SwipeEvents
             /\ party = ScenarioActive
             /\ Shown(party, restaurants) = Some(ScenarioRest(k)))
            => /\ restaurants' = Some(ScenarioRest(k + 1))
               /\ pending' = Some(TRUE)
       /\ \A k \in 1..(Len(ScenarioDeck) - LowQueue) :
            (/\ EffectsRun
             /\ pending = Some(TRUE)
             /\ party \in {ScenarioActive, ScenarioMore, ScenarioMoreWhole}
             /\ restaurants = Some(ScenarioRest(k)))
            => CountRequestMore(out')
                 = IF Len(ScenarioRest(k)) = LowQueue THEN 1 ELSE 0
       /\ (/\ EffectsRun
           /\ prevRef = ScenarioActive
           /\ party \in {ScenarioMore, ScenarioMoreWhole}
           /\ restaurants = Some(ScenarioRest(Len(ScenarioDeck) - LowQueue)))
          => restaurants' = Some(<<8, 9, 10, 11, 12, 13>>)]_vars

C13_Witness ==
    /\ event = "effects"
    /\ party = ScenarioMore
    /\ prevRef = ScenarioMore
    /\ restaurants = Some(<<8, 9, 10, 11, 12, 13>>)
    /\ ~finished

(***************************************************************************)
(* C14.  When the effects of a render run that got a `current` which is    *)
(* non-empty and differs from the `current` of the render before, and the  *)
(* Local Queue exists, the Local Queue becomes the Local Queue of that     *)
(* render followed by party.current in the batch's order: every card of    *)
(* the old queue keeps its place and the cards of the batch follow, each   *)
(* at its place in the batch.                                              *)
(***************************************************************************)
C14_AppendKeepsOrder ==
    [][(EffectsRun /\ restaurants # None /\ NewBatch)
       => /\ restaurants' = Some(restaurants[1] \o party.current[1])
          /\ \A i \in 1..Len(restaurants[1]) :
                restaurants'[1][i] = restaurants[1][i]
          /\ \A j \in 1..Len(party.current[1]) :
                restaurants'[1][Len(restaurants[1]) + j] = party.current[1][j]]_vars

C14_Witness ==
    /\ event = "effects"
    /\ pending = Some(TRUE)
    /\ party.current # None
    /\ Len(party.current[1]) = 2
    /\ party.current[1][1] # party.current[1][2]
    /\ restaurants # None
    /\ Len(restaurants[1]) = 4
    /\ restaurants[1][1] <= DeckLen
    /\ restaurants[1][2] <= DeckLen
    /\ restaurants[1][3] = party.current[1][1]
    /\ restaurants[1][4] = party.current[1][2]

(***************************************************************************)
(* C15.  Whatever gives the Local Queue another value (a swipe, a batch    *)
(* append, Start Over), the render that follows owes the request-more      *)
(* check, or, in the task of a button that resets Party, has had it run:   *)
(* one request-more for a queue of exactly three cards.  When the effects  *)
(* of a render run, they send exactly one request-more if the render got   *)
(* another Local Queue and it has exactly three cards, and none if it has  *)
(* any other length.                                                       *)
(***************************************************************************)
C15_RequestOnEveryChange ==
    [][/\ restaurants' # restaurants
          => IF event' \in ResetEvents
             THEN CountRequestMore(out')
                    = CountRequestMore(Flushed.out)
                      + (IF Len(restaurants'[1]) = LowQueue THEN 1 ELSE 0)
             ELSE pending' = Some(TRUE)
       /\ (EffectsRun /\ pending = Some(TRUE))
          => CountRequestMore(out')
               = IF restaurants # None /\ Len(restaurants[1]) = LowQueue
                 THEN 1 ELSE 0]_vars

C15_Witness ==
    /\ event = "effects"
    /\ restaurants = Some(ShortDeck)
    /\ aliased
    /\ CountRequestMore(out) = 1

(***************************************************************************)
(* C16.  A swipe to the right sends exactly one swipe-right message, with  *)
(* the id of the card swiped, before anything else; Party is left as it    *)
(* was, and the Local Queue and the finished flag change as they do on a   *)
(* swipe to the left: the window takes the card off, unless a batch the    *)
(* render before still owed is appended in the same task.                  *)
(***************************************************************************)
C16_SwipeRightSendsOnce ==
    [][event' = "swipe-right"
       => /\ out' = <<SwipeRightMsg(Head(Shown(party, restaurants)[1]))>>
                      \o Flushed.out
          /\ Cardinality({i \in 1..Len(out') : out'[i].type = "swipe-right"})
               = 1
          /\ party' = party
          /\ restaurants'
               = (IF Flushed.merged # None THEN Flushed.merged
                  ELSE Some(Consume(Shown(party, restaurants)[1])))
          /\ finished'
               = (finished \/ Consume(Shown(party, restaurants)[1]) = <<>>)]_vars

C16_Witness ==
    /\ event = "swipe-right"
    /\ restaurants # None
    /\ Len(restaurants[1]) = LowQueue
    /\ out = <<SwipeRightMsg(1)>>
    /\ pending = Some(TRUE)

(***************************************************************************)
(* C17.  When a swipe takes the last card and sets the finished flag, a    *)
(* request-more has gone out in this pass of the deck.                     *)
(***************************************************************************)
C17_RequestedBeforeDrained ==
    (finished /\ event \in SwipeEvents /\ restaurants = Some(<<>>))
    => asked = Some(TRUE)

(***************************************************************************)
(* C18.  After Start Over the exhausted view is gone whenever              *)
(* party.restaurants is non-empty.  With party.total = 0 the exhausted     *)
(* branch is taken again in the next render.                               *)
(***************************************************************************)
C18_StartOverLeavesExhausted ==
    [][(event' = "start-over" /\ NonEmpty(party'.restaurants))
       => View(party', finished') # "exhausted"]_vars

(***************************************************************************)
(* C19.  The reset of Party by the error alert's OK or the exit dialog's   *)
(* OK leaves the finished flag as it was, sends no request-more and puts   *)
(* nothing in the Local Queue beyond what the effects owed do when left to *)
(* run, and the effects of the render of the empty Party append            *)
(* nothing; a task other than Start Over changes the Local Queue only by   *)
(* taking its top card or by appending a batch.                            *)
(***************************************************************************)
C19_ResetLeavesQueue ==
    [][/\ event' \in ResetEvents
          => /\ party' = EmptyParty
             /\ CountRequestMore(out') = CountRequestMore(OwedMessages)
             /\ restaurants'
                  = (IF Flushed.merged # None THEN Flushed.merged
                     ELSE restaurants)
             /\ finished' = finished
       /\ (party = EmptyParty /\ event' \in {"effects", "push"})
          => restaurants' = restaurants
       /\ (restaurants' # restaurants /\ event' # "start-over")
          => IF Flushed.merged # None
             THEN restaurants' = Some(restaurants[1] \o party.current[1])
             ELSE /\ event' \in SwipeEvents
                  /\ restaurants'
                       = Some(Tail(Shown(party, restaurants)[1]))]_vars

C19_Witness ==
    /\ event = "exit-ok"
    /\ party = EmptyParty
    /\ restaurants # None
    /\ Len(restaurants[1]) = LowQueue
    /\ ~finished

====
